---- MODULE Spec2Model ----
(***************************************************************************)
(* Comparable-property extraction and template substitution                *)
(* (src/comp2.py, class CompExtractor).                                    *)
(*                                                                         *)
(* Text is a sequence of characters; a character is a TLA+ string, so that *)
(* a keyword such as {{comp1_sale_price}} is several characters long and   *)
(* can lie inside one run of a paragraph or span several.                  *)
(*                                                                         *)
(* The specifications share the variables:                                 *)
(*   SpecMap      create_comp_replacements on bounded record lists         *)
(*   Spec         replace_keywords_in_document on bounded templates        *)
(*   SpecRuns     _replace_text_in_document of the property report         *)
(*                (src/both4.py) on bounded paragraphs                     *)
(*   SpecExtract  extract_comps_from_pdf on bounded PDFs, and the answer   *)
(*                of process_comps (src/api_server.py) to its result       *)
(*   SpecParse    _parse_all_comps on one record with a broker section     *)
(*   SpecIsolated two invocations at the same time, on extractors with     *)
(*                output directories of their own                          *)
(*   SpecShared   two invocations at the same time on the one extractor    *)
(*                of the API                                               *)
(***************************************************************************)
EXTENDS Integers, Sequences, FiniteSets

VARIABLES
    pc,              \* position of the running operation
    comps,           \* List[CompProperty]
    replacements,    \* the dict of create_comp_replacements, in insertion order
    template,        \* the template file at doc_path
    doc,             \* the python-docx Document being rendered
    files,           \* paths that exist on disk (with writer and content when
                     \* two invocations run at the same time)
    saved,           \* the document written by doc.save, or NoDoc
    pdf,             \* the input PDF: readable flag and pages
    comp_page_map,   \* page number -> comp index, a partial map
    page_num,        \* loop position of the image walk
    img_index,       \* position in the page's image list
    clock,           \* datetime.now(), in seconds
    log,             \* logger.error records
    full_text,       \* the joined page text, cleaned
    sections,        \* comp_sections of _parse_all_comps
    response         \* what process_comps answers when no record was found

vars == <<pc, comps, replacements, template, doc, files, saved, pdf, comp_page_map,
          page_num, img_index, clock, log, full_text, sections, response>>

----------------------------------------------------------------------------
(* Strings *)

None == <<"None">>

EmptyStr == <<>>

Digit(n) == <<"0", "1", "2", "3", "4", "5", "6", "7", "8", "9">>[n + 1]

RECURSIVE str(_)
str(n) == IF n < 10 THEN <<Digit(n)>> ELSE str(n \div 10) \o <<Digit(n % 10)>>

\* Python truthiness of an Optional[str]
Truthy(s) == s # None /\ s # EmptyStr

\* keyword in text, at position p
OccursAt(text, kw, p) ==
    /\ p >= 1
    /\ p + Len(kw) - 1 <= Len(text)
    /\ \A k \in 1..Len(kw) : text[p + k - 1] = kw[k]

\* Python: kw in text
Contains(text, kw) == \E p \in 1..(Len(text) + 1) : OccursAt(text, kw, p)

\* Python: text.find(kw), 1-based; 0 when absent
Find(text, kw) ==
    IF Contains(text, kw)
    THEN CHOOSE p \in 1..(Len(text) + 1) :
            OccursAt(text, kw, p) /\ \A q \in 1..(p - 1) : ~OccursAt(text, kw, q)
    ELSE 0

\* Python: text.replace(kw, value), every non-overlapping occurrence, left to right
RECURSIVE StrReplace(_, _, _)
StrReplace(text, kw, value) ==
    IF Len(kw) = 0 \/ ~Contains(text, kw) THEN text
    ELSE LET p == Find(text, kw)
         IN  SubSeq(text, 1, p - 1) \o value
                \o StrReplace(SubSeq(text, p + Len(kw), Len(text)), kw, value)

----------------------------------------------------------------------------
(* CompProperty and the keyword map *)

NumSlots == 6

\* the attributes of CompProperty written by create_comp_replacements, with
\* the template field name of each, in the order the dict receives them
TextFields ==
    <<"property_name", "address", "primary_use", "market", "sub_market",
      "comp_sf", "acres", "sale_price", "sale_price_sf", "sale_price_acres",
      "zoning", "parcel_number", "off_market_date", "months_on_market",
      "topography", "seller_landlord", "buyer_tenant", "listing_broker",
      "listing_broker_company", "listing_broker_phone", "listing_broker_email">>

\* the `fields` list of the branch for a slot without a record
EmptySlotFields == <<"number">> \o TextFields

TextFieldSet == {TextFields[k] : k \in 1..Len(TextFields)}

\* the template field names of the external interface
TemplateFieldNames == {"number", "image"} \cup TextFieldSet

\* f'{{{{comp{i}_{field}}}}}'
Keyword(i, field) == <<"{{comp">> \o str(i) \o <<"_", field, "}}">>

\* CompProperty(comp_number=n): every text field defaults to ""
CompProperty(n) ==
    [comp_number |-> n,
     fields      |-> [f \in TextFieldSet |-> EmptyStr],
     image_path  |-> None]

\* sorted(comps, key=lambda x: x.comp_number): stable, ascending
RECURSIVE Insert(_, _)
Insert(sortedSeq, c) ==
    IF sortedSeq = <<>> THEN <<c>>
    ELSE IF sortedSeq[Len(sortedSeq)].comp_number <= c.comp_number
         THEN Append(sortedSeq, c)
         ELSE Append(Insert(SubSeq(sortedSeq, 1, Len(sortedSeq) - 1), c),
                     sortedSeq[Len(sortedSeq)])

\* the list taken in source order, as comps[:6] of an unsorted list would
sorted_Unsorted(cs) == cs

RECURSIVE sorted(_)
sorted(cs) ==
    IF cs = <<>> THEN <<>>
    ELSE Insert(sorted(SubSeq(cs, 1, Len(cs) - 1)), cs[Len(cs)])

\* the first six in source order, then sorted: sorted(comps[:6], key=...)
sorted_comps_TruncateFirst(cs) ==
    sorted(SubSeq(cs, 1, IF Len(cs) < NumSlots THEN Len(cs) ELSE NumSlots))

\* sorted(comps, key=...)[:6]
sorted_comps(cs) ==
    LET s == sorted(cs) IN SubSeq(s, 1, IF Len(s) < NumSlots THEN Len(s) ELSE NumSlots)

\* a slot without a record adds nothing, and a record without an image adds
\* an empty image entry
SlotEntries_SkipEmptySlots(sc, i) ==
    IF i <= Len(sc)
    THEN LET comp == sc[i]
         IN  <<[k |-> Keyword(i, "number"), v |-> str(comp.comp_number)]>>
             \o [j \in 1..Len(TextFields) |->
                    [k |-> Keyword(i, TextFields[j]), v |-> comp.fields[TextFields[j]]]]
             \o <<[k |-> Keyword(i, "image"),
                   v |-> IF Truthy(comp.image_path) THEN comp.image_path ELSE EmptyStr]>>
    ELSE <<>>

\* the entries one slot adds to the dict
SlotEntries(sc, i) ==
    IF i <= Len(sc)
    THEN LET comp == sc[i]
         IN  <<[k |-> Keyword(i, "number"), v |-> str(comp.comp_number)]>>
             \o [j \in 1..Len(TextFields) |->
                    [k |-> Keyword(i, TextFields[j]), v |-> comp.fields[TextFields[j]]]]
             \o (IF Truthy(comp.image_path)
                 THEN <<[k |-> Keyword(i, "image"), v |-> comp.image_path]>>
                 ELSE <<>>)
    ELSE [j \in 1..Len(EmptySlotFields) |->
            [k |-> Keyword(i, EmptySlotFields[j]), v |-> EmptyStr]]

RECURSIVE EntriesUpTo(_, _)
EntriesUpTo(sc, i) ==
    IF i = 0 THEN <<>> ELSE EntriesUpTo(sc, i - 1) \o SlotEntries(sc, i)

\* create_comp_replacements(comps): the dict as its entries in insertion order
\* (the keys written are pairwise distinct, so no entry is overwritten)
create_comp_replacements(cs) == EntriesUpTo(sorted_comps(cs), NumSlots)

\* dict operations
Keys(repl) == {repl[j].k : j \in 1..Len(repl)}

HasKey(repl, key) == \E j \in 1..Len(repl) : repl[j].k = key

\* replacements[key] (the entries hold pairwise distinct keys)
Lookup(repl, key) == repl[CHOOSE j \in 1..Len(repl) : repl[j].k = key].v

Entries(repl) == {repl[j] : j \in 1..Len(repl)}

Values(repl) == {repl[j].v : j \in 1..Len(repl)}

\* replacements.get(key, '')
Get(repl, key) == IF HasKey(repl, key) THEN Lookup(repl, key) ELSE EmptyStr

----------------------------------------------------------------------------
(* The python-docx document *)

\* a run: its text, its character formatting, and an inline picture if any
Run(text, bold) == [text |-> text, bold |-> bold, pic |-> None]

\* paragraph.text: the texts of the runs, joined
RECURSIVE ParagraphText(_)
ParagraphText(runs) ==
    IF runs = <<>> THEN <<>>
    ELSE ParagraphText(SubSeq(runs, 1, Len(runs) - 1)) \o runs[Len(runs)].text

\* run.text = t: the run keeps its formatting, its content is replaced
SetRunText(run, t) == [run EXCEPT !.text = t, !.pic = None]

\* paragraph.text = t: the content is cleared and one unformatted run is added
SetParagraphText(t) == <<Run(t, FALSE)>>

\* one iteration of `for keyword, value in replacements.items()` in
\* replace_in_paragraph, on the text so far and has_replacement
ApplyEntry(st, entry) ==
    IF Contains(st.full_text, entry.k)
    THEN [full_text |-> StrReplace(st.full_text, entry.k, entry.v),
          has_replacement |-> TRUE]
    ELSE st

\* the iterations for entries lo..hi, in order: the first half, then the
\* second half on its result (which is st itself when nothing was replaced)
RECURSIVE ApplyEntries(_, _, _, _)
ApplyEntries(st, repl, lo, hi) ==
    IF lo > hi THEN st
    ELSE IF lo = hi THEN ApplyEntry(st, repl[lo])
    ELSE LET mid  == (lo + hi) \div 2
             left == ApplyEntries(st, repl, lo, mid)
         IN  IF left.has_replacement
             THEN ApplyEntries(left, repl, mid + 1, hi)
             ELSE ApplyEntries(st, repl, mid + 1, hi)

\* replace_in_paragraph(paragraph), a closure over replacements
replace_in_paragraph(runs, repl) ==
    IF ParagraphText(runs) = <<>> THEN runs
    ELSE LET r == ApplyEntries([full_text |-> ParagraphText(runs),
                                has_replacement |-> FALSE], repl, 1, Len(repl))
         IN  IF ~r.has_replacement THEN runs
             ELSE IF Len(runs) = 1 THEN <<SetRunText(runs[1], r.full_text)>>
             ELSE [j \in 1..Len(runs) |->
                      SetRunText(runs[j], IF j = 1 THEN r.full_text ELSE <<>>)]

\* `for paragraph in ...: replace_in_paragraph(paragraph)`
RECURSIVE ReplaceInEach(_, _)
ReplaceInEach(paragraphs, repl) ==
    IF paragraphs = <<>> THEN <<>>
    ELSE <<replace_in_paragraph(Head(paragraphs), repl)>>
            \o ReplaceInEach(Tail(paragraphs), repl)

\* the two loops that call replace_in_paragraph: doc.paragraphs, then the
\* paragraphs of every table cell; headers and footers are not visited
ReplaceTextIn(d, repl) ==
    [body   |-> ReplaceInEach(d.body, repl),
     cells  |-> ReplaceInEach(d.cells, repl),
     header |-> d.header,
     footer |-> d.footer]

\* python-docx reads the image file by its format: png and jpeg files make a
\* picture, a jpx file (which PyMuPDF extracts as it is) makes add_picture raise
IsPicture(image_path) == image_path[Len(image_path)] # "jpx"

\* add_picture without the try: its exception leaves the image loop
add_picture_Uncaught(image_path) ==
    [pic    |-> IF IsPicture(image_path) THEN image_path ELSE None,
     logged |-> FALSE,
     raised |-> ~IsPicture(image_path)]

\* `try: paragraph.add_run().add_picture(image_path, ...)` with its
\* `except Exception`: the picture of the new run, whether an error is logged,
\* and whether an exception leaves the try statement
add_picture(image_path) ==
    [pic    |-> IF IsPicture(image_path) THEN image_path ELSE None,
     logged |-> ~IsPicture(image_path),
     raised |-> FALSE]

\* the body of `if image_keyword in paragraph.text:` for one paragraph
InsertImage(runs, image_keyword, image_path) ==
    IF Contains(ParagraphText(runs), image_keyword)
    THEN SetParagraphText(StrReplace(ParagraphText(runs), image_keyword, <<>>))
            \o <<[text |-> <<>>, bold |-> FALSE, pic |-> add_picture(image_path).pic]>>
    ELSE runs

\* `for paragraph in doc.paragraphs:` of the image loop
RECURSIVE InsertImageInEach(_, _, _)
InsertImageInEach(paragraphs, image_keyword, image_path) ==
    IF paragraphs = <<>> THEN <<>>
    ELSE <<InsertImage(Head(paragraphs), image_keyword, image_path)>>
            \o InsertImageInEach(Tail(paragraphs), image_keyword, image_path)

\* one iteration of `for i in range(1, 7)` of the image loop
ImageSlot(d, repl, existing, i) ==
    LET image_keyword == Keyword(i, "image")
        image_path    == Get(repl, image_keyword)
    IN  IF Truthy(image_path) /\ image_path \in existing
        THEN [body   |-> InsertImageInEach(d.body, image_keyword, image_path),
              cells  |-> d.cells,
              header |-> d.header,
              footer |-> d.footer]
        ELSE d

RECURSIVE ImageSlotsUpTo(_, _, _, _)
ImageSlotsUpTo(d, repl, existing, i) ==
    IF i = 0 THEN d
    ELSE ImageSlot(ImageSlotsUpTo(d, repl, existing, i - 1), repl, existing, i)

\* the image loop of replace_keywords_in_document
ReplaceImagesIn(d, repl, existing) == ImageSlotsUpTo(d, repl, existing, NumSlots)

\* the calls of add_picture the image loop makes: the slot and the paragraph
AddPictureCalls(d, repl, existing) ==
    {c \in (1..NumSlots) \X (1..Len(d.body)) :
        /\ Truthy(Get(repl, Keyword(c[1], "image")))
        /\ Get(repl, Keyword(c[1], "image")) \in existing
        /\ Contains(ParagraphText(ImageSlotsUpTo(d, repl, existing, c[1] - 1).body[c[2]]),
                    Keyword(c[1], "image"))}

\* an exception leaves the image loop
ImageLoopRaises(d, repl, existing) ==
    \E c \in AddPictureCalls(d, repl, existing) :
        add_picture(Get(repl, Keyword(c[1], "image"))).raised

\* the logger.error records of the image loop
ImageLoopErrors(d, repl, existing) ==
    LET n == Cardinality({c \in AddPictureCalls(d, repl, existing) :
                            add_picture(Get(repl, Keyword(c[1], "image"))).logged})
    IN  [k \in 1..n |-> "Error adding image"]

----------------------------------------------------------------------------
(* Values shared by the specifications *)

NoDoc == [body |-> <<>>, cells |-> <<>>, header |-> <<>>, footer |-> <<>>]

NoPdf == [readable |-> FALSE, pages |-> <<>>]

\* f"comp_{comp_number}_{timestamp}.{image_ext}" under self.images_dir
ImagePath(n, timestamp, image_ext) ==
    <<"comp_images/comp_">> \o str(n) \o <<"_">> \o str(timestamp) \o <<".", image_ext>>

----------------------------------------------------------------------------
(* SpecMap: create_comp_replacements applied to bounded record lists *)

MaxComps == 7

\* heading numbers of the bounded lists: out of order, repeated, with a gap;
\* lists of up to four records draw from four numbers, longer lists from three
MapOrdinals(n) == IF n <= 4 THEN {1, 2, 3, 5} ELSE {1, 2, 5}

\* which spans carry an image: none, all, the odd ones, the even ones
ImagePatterns == {"none", "all", "odd", "even"}

HasImage(pattern, j) ==
    \/ pattern = "all"
    \/ pattern = "odd" /\ j % 2 = 1
    \/ pattern = "even" /\ j % 2 = 0

\* the record parsed from the j-th span: ordinal n, every text field holding a
\* value that names the field and the span, and an image or none
MapRecord(j, n, hasImage) ==
    [comp_number |-> n,
     fields      |-> [f \in TextFieldSet |-> <<f, "#">> \o str(j)],
     image_path  |-> IF hasImage THEN ImagePath(n, j, "png") ELSE None]

MapInit ==
    /\ pc = "map_start"
    /\ \E n \in 0..MaxComps :
         \E o \in [1..n -> MapOrdinals(n)], im \in ImagePatterns :
            comps = [j \in 1..n |-> MapRecord(j, o[j], HasImage(im, j))]
    /\ replacements = <<>>
    /\ template = NoDoc
    /\ doc = NoDoc
    /\ files = {}
    /\ saved = NoDoc
    /\ pdf = NoPdf
    /\ comp_page_map = <<>>
    /\ page_num = 0
    /\ img_index = 0
    /\ clock = 0
    /\ log = <<>>
    /\ full_text = <<>>
    /\ sections = <<>>
    /\ response = None

\* replacements = self.create_comp_replacements(comps)
CreateReplacements ==
    /\ pc = "map_start"
    /\ replacements' = create_comp_replacements(comps)
    /\ pc' = "map_done"
    /\ UNCHANGED <<comps, template, doc, files, saved, pdf, comp_page_map,
                   page_num, img_index, clock, log, full_text, sections, response>>

MapNext == CreateReplacements

SpecMap == MapInit /\ [][MapNext]_vars

----------------------------------------------------------------------------
(* Properties of create_comp_replacements, under SpecMap *)

\* the 1-based place of comps[j] when the list is ordered by ordinal, records
\* of equal ordinal keeping their source order
Rank(cs, j) ==
    1 + Cardinality({h \in 1..Len(cs) :
                        \/ cs[h].comp_number < cs[j].comp_number
                        \/ cs[h].comp_number = cs[j].comp_number /\ h < j})

\* the records that have a slot
Slotted(cs) == {j \in 1..Len(cs) : Rank(cs, j) <= NumSlots}

TextKeywords ==
    {Keyword(i, f) : i \in 1..NumSlots, f \in {"number"} \cup TextFieldSet}

\* C2, as claimed: the map always has exactly 6 x 23 keys, whatever the number
\* of records and whichever of them have an image.
C2_KeyCountIsSixTimesAllFields ==
    pc = "map_done" =>
        Cardinality(Keys(replacements)) = NumSlots * Cardinality(TemplateFieldNames)

\* What does hold of the key count: the map always holds the 6 x 22 text keywords (number ...
\* listing_broker_email), whatever the number of records; beyond them it holds
\* only image keywords, one for each slotted record that has an image path.
C2_KeyCount ==
    pc = "map_done" =>
        /\ TextKeywords \subseteq Keys(replacements)
        /\ Cardinality(Keys(replacements) \cap TextKeywords)
              = NumSlots * (Cardinality(TemplateFieldNames) - 1)
        /\ Cardinality(Keys(replacements))
              = NumSlots * (Cardinality(TemplateFieldNames) - 1)
                + Cardinality({j \in Slotted(comps) : Truthy(comps[j].image_path)})
        /\ Len(replacements) = Cardinality(Keys(replacements))

\* two records, one of them with an image: 133 keys
C2_Witness ==
    /\ pc = "map_done"
    /\ Len(comps) = 2
    /\ Truthy(comps[1].image_path)
    /\ ~Truthy(comps[2].image_path)
    /\ Cardinality(Keys(replacements)) = 133

\* C3: every slot without a record still has every keyword of the slot, the
\* image keyword included, bound to the empty string.
C3_AbsentSlotsHaveEveryKeyword ==
    pc = "map_done" =>
        \A i \in (Len(comps) + 1)..NumSlots : \A f \in TemplateFieldNames :
            /\ HasKey(replacements, Keyword(i, f))
            /\ Get(replacements, Keyword(i, f)) = EmptyStr

\* C4: slot i is bound to the record with the i-th smallest ordinal, in
\* whatever order the records are passed: its number keyword is that ordinal
\* and every other keyword of the slot carries that record's fields.
C4_SlotsInOrdinalOrder ==
    pc = "map_done" =>
        \A j \in Slotted(comps) :
            LET i == Rank(comps, j)
            IN  /\ Get(replacements, Keyword(i, "number")) = str(comps[j].comp_number)
                /\ HasKey(replacements, Keyword(i, "number"))
                /\ \A f \in TextFieldSet :
                      [k |-> Keyword(i, f), v |-> comps[j].fields[f]]
                         \in Entries(replacements)
                /\ Truthy(comps[j].image_path) =>
                      Get(replacements, Keyword(i, "image")) = comps[j].image_path

\* the ordinals 3, 1, 5, 2 fill the slots 1..4 with 1, 2, 3, 5
C4_Witness ==
    /\ pc = "map_done"
    /\ Len(comps) = 4
    /\ comps[1].comp_number = 3
    /\ comps[2].comp_number = 1
    /\ comps[3].comp_number = 5
    /\ comps[4].comp_number = 2
    /\ Get(replacements, Keyword(1, "number")) = str(1)
    /\ Get(replacements, Keyword(2, "number")) = str(2)
    /\ Get(replacements, Keyword(3, "number")) = str(3)
    /\ Get(replacements, Keyword(4, "number")) = str(5)
    /\ Get(replacements, Keyword(2, "sale_price")) = comps[4].fields["sale_price"]

\* the record a slot shows, read back from the map alone (property names are
\* distinct in the lists of SpecMap); 0 when the slot shows no record
ShownRecord(names, repl, i) ==
    LET shownName == Get(repl, Keyword(i, "property_name"))
    IN  IF \E j \in 1..Len(names) : names[j] = shownName
        THEN CHOOSE j \in 1..Len(names) : names[j] = shownName
        ELSE 0

\* what the record at place j would put into the map
ValuesOf(c) == {c.fields[f] : f \in TextFieldSet} \cup {c.image_path}

\* C5: of more than six records the six with the lowest ordinals are kept, in
\* ascending order; no slot shows a record with a higher ordinal than an
\* omitted one, and nothing of an omitted record reaches the map.
C5_SixLowestKept ==
    (pc = "map_done" /\ Len(comps) > NumSlots) =>
        LET names   == [j \in 1..Len(comps) |-> comps[j].fields["property_name"]]
            shown   == [i \in 1..NumSlots |-> ShownRecord(names, replacements, i)]
            omitted == {j \in 1..Len(comps) : \A i \in 1..NumSlots : shown[i] # j}
        IN  /\ \A i \in 1..NumSlots : shown[i] # 0
            /\ \A i \in 1..NumSlots :
                  Get(replacements, Keyword(i, "number"))
                     = str(comps[shown[i]].comp_number)
            /\ \A i \in 1..(NumSlots - 1) :
                  comps[shown[i]].comp_number <= comps[shown[i + 1]].comp_number
            /\ Cardinality(omitted) = Len(comps) - NumSlots
            /\ \A j \in omitted : \A i \in 1..NumSlots :
                  comps[shown[i]].comp_number <= comps[j].comp_number
            /\ \A j \in omitted :
                  ValuesOf(comps[j]) \cap Values(replacements) = {}

\* seven records, the last with a lower ordinal than the first: the last is
\* kept and an earlier one is omitted
C5_Witness ==
    /\ pc = "map_done"
    /\ Len(comps) = NumSlots + 1
    /\ comps[NumSlots + 1].comp_number < comps[1].comp_number
    /\ Get(replacements, Keyword(1, "property_name"))
          = comps[NumSlots + 1].fields["property_name"]

----------------------------------------------------------------------------
(* Spec: replace_keywords_in_document applied to bounded templates *)

MaxRenderComps == 1

GoodPath == ImagePath(4, 0, "png")

GonePath == ImagePath(4, 0, "jpeg")

\* an image file that exists and that python-docx cannot read
BadPath == ImagePath(4, 0, "jpx")

\* a record as extraction leaves it: ordinal 4, a sale price or none, and no
\* image, an image whose file exists, one whose file is gone at render time,
\* or one whose file cannot be read as a picture
RenderRecord(price, image) ==
    [CompProperty(4) EXCEPT !.fields["sale_price"] = price, !.image_path = image]

RenderPrices == {EmptyStr, <<"$", "1,200,000">>}

RenderImages == {None, GoodPath, GonePath, BadPath}

\* a record whose name holds a double hyphen, and one whose name is the text
\* of a keyword of the template
NamedRecord(name) == [CompProperty(4) EXCEPT !.fields["property_name"] = name]

RenderNames == {<<"Lots 4", "--", "6">>, Keyword(2, "address")}

RenderRecords ==
    {RenderRecord(price, image) : price \in RenderPrices, image \in RenderImages}
    \cup {NamedRecord(name) : name \in RenderNames}

\* the image keyword of slot 1 with the sale price keyword of slot 2 inside
\* it: once that one is replaced by the empty string the image keyword is there
NestedImageText ==
    SubSeq(Keyword(1, "image"), 1, 3) \o Keyword(2, "sale_price")
        \o SubSeq(Keyword(1, "image"), 4, 5)

\* template texts: a label and a keyword, the same keyword twice, or a
\* keyword inside a keyword
TemplateSlots == {1, 2}

TemplateFields == {"sale_price", "image"}

TemplateTexts ==
    {<<"Comp: ">> \o Keyword(i, f) : i \in TemplateSlots, f \in TemplateFields}
    \cup {Keyword(i, f) \o <<" / ">> \o Keyword(i, f) :
            i \in TemplateSlots, f \in TemplateFields}
    \cup {NestedImageText}

\* a paragraph holding text t: one run, or two runs of different formatting
\* split after character c
Split(t, c, bold) ==
    IF c = 0 THEN <<Run(t, bold)>>
    ELSE <<Run(SubSeq(t, 1, c), bold), Run(SubSeq(t, c + 1, Len(t)), ~bold)>>

\* the paragraph of the documented example, in one bold run
SamplePara == <<Run(<<"Comp: ">> \o Keyword(1, "sale_price"), TRUE)>>

\* every keyword of the template interface, in one run
RECURSIVE Concat(_)
Concat(ts) == IF ts = <<>> THEN <<>> ELSE ts[1] \o Concat(Tail(ts))

AllKeywordsText ==
    Concat([i \in 1..NumSlots |->
              Keyword(i, "number")
              \o Concat([j \in 1..Len(TextFields) |-> Keyword(i, TextFields[j])])
              \o Keyword(i, "image")])

Places == {"body", "cells", "header", "footer"}

\* a template: the sample paragraph in the body, and paragraph p in one place
Template(p, place) ==
    [body   |-> IF place = "body" THEN <<SamplePara, p>> ELSE <<SamplePara>>,
     cells  |-> IF place = "cells" THEN <<p>> ELSE <<>>,
     header |-> IF place = "header" THEN <<p>> ELSE <<>>,
     footer |-> IF place = "footer" THEN <<p>> ELSE <<>>]

Init ==
    /\ pc = "start"
    /\ \E n \in 0..MaxRenderComps : comps \in [1..n -> RenderRecords]
    /\ \/ \E t \in TemplateTexts, c \in 0..5, bold \in BOOLEAN, place \in Places :
            /\ c < Len(t)
            /\ template = Template(Split(t, c, bold), place)
       \/ \E place \in Places :
            template = Template(<<Run(AllKeywordsText, FALSE)>>, place)
    /\ doc = NoDoc
    /\ replacements = <<>>
    /\ files = {GoodPath, BadPath}
    /\ saved = NoDoc
    /\ pdf = NoPdf
    /\ comp_page_map = <<>>
    /\ page_num = 0
    /\ img_index = 0
    /\ clock = 0
    /\ log = <<>>
    /\ full_text = <<>>
    /\ sections = <<>>
    /\ response = None

\* doc = Document(doc_path); replacements = self.create_comp_replacements(comps)
LoadTemplate ==
    /\ pc = "start"
    /\ doc' = template
    /\ replacements' = create_comp_replacements(comps)
    /\ pc' = "text"
    /\ UNCHANGED <<comps, template, files, saved, pdf, comp_page_map, page_num,
                   img_index, clock, log, full_text, sections, response>>

\* "Replace in paragraphs" and "Replace in tables"
ReplaceText ==
    /\ pc = "text"
    /\ doc' = ReplaceTextIn(doc, replacements)
    /\ pc' = "images"
    /\ UNCHANGED <<comps, replacements, template, files, saved, pdf,
                   comp_page_map, page_num, img_index, clock, log,
                   full_text, sections, response>>

\* "Handle image replacements"; an exception that left the loop would leave
\* replace_keywords_in_document before the document is saved
ReplaceImages ==
    /\ pc = "images"
    /\ doc' = ReplaceImagesIn(doc, replacements, files)
    /\ log' = log \o ImageLoopErrors(doc, replacements, files)
    /\ pc' = IF ImageLoopRaises(doc, replacements, files) THEN "raised" ELSE "save"
    /\ UNCHANGED <<comps, replacements, template, files, saved, pdf,
                   comp_page_map, page_num, img_index, clock,
                   full_text, sections, response>>

\* doc.save(output_path); return str(output_path)
SaveDocument ==
    /\ pc = "save"
    /\ saved' = doc
    /\ pc' = "done"
    /\ UNCHANGED <<comps, replacements, template, doc, files, pdf,
                   comp_page_map, page_num, img_index, clock, log,
                   full_text, sections, response>>

Next == LoadTemplate \/ ReplaceText \/ ReplaceImages \/ SaveDocument

Spec == Init /\ [][Next]_vars

----------------------------------------------------------------------------
(* SpecRuns: _replace_text_in_document of both4.py applied to bounded      *)
(* documents. A run has one formatting attribute here, bold; italic,       *)
(* underline, font name and size are captured by the code in the same      *)
(* dict, and only bold and italic are reapplied to the text before and     *)
(* after the placeholder.                                                   *)

MaxRuns == 3

\* a placeholder of the property report, '{{field}}'
Placeholder(field) == <<"{{", field, "}}">>

\* the character U+2013
EnDash == "[en dash]"

\* char_formats: the formatting of the originating run, for every character
\* of the paragraph
RECURSIVE char_formats(_)
char_formats(runs) ==
    IF runs = <<>> THEN <<>>
    ELSE char_formats(SubSeq(runs, 1, Len(runs) - 1))
            \o [k \in 1..Len(runs[Len(runs)].text) |-> runs[Len(runs)].bold]

\* the rebuild of a paragraph whose placeholder spans several runs:
\* paragraph.clear(), then a run for the text before the placeholder, one for
\* the replacement and one for the text after it
slow_path(runs, placeholder, replacement) ==
    LET text              == ParagraphText(runs)
        formats           == char_formats(runs)
        placeholder_start == Find(text, placeholder)
        after_start       == placeholder_start + Len(placeholder)
        text_after        == SubSeq(text, after_start, Len(text))
    IN  (IF placeholder_start > 1
         THEN <<Run(SubSeq(text, 1, placeholder_start - 1),
                    formats[placeholder_start - 1])>>
         ELSE <<>>)
        \o <<Run(replacement, formats[placeholder_start])>>
        \o (IF text_after # <<>>
            THEN <<Run(text_after, formats[after_start])>>
            ELSE <<>>)

\* replacement.replace('--', '–')
en_dash(replacement) == StrReplace(replacement, <<"--">>, <<EnDash>>)

\* _replace_text_in_runs(paragraph, placeholder, replacement): the first run
\* that holds the whole placeholder is changed in place and the function
\* returns; when no run holds it, the paragraph is rebuilt
replace_text_in_runs(runs, placeholder, replacement) ==
    IF ~Contains(ParagraphText(runs), placeholder) THEN runs
    ELSE IF \E j \in 1..Len(runs) : Contains(runs[j].text, placeholder)
    THEN LET j == CHOOSE x \in 1..Len(runs) :
                    /\ Contains(runs[x].text, placeholder)
                    /\ \A y \in 1..(x - 1) : ~Contains(runs[y].text, placeholder)
         IN  [runs EXCEPT ![j] =
                SetRunText(@, StrReplace(@.text, placeholder, en_dash(replacement)))]
    ELSE slow_path(runs, placeholder, en_dash(replacement))

\* `for placeholder, replacement in replacements.items():` on one paragraph,
\* for the first n entries
RECURSIVE PlaceholdersUpTo(_, _, _)
PlaceholdersUpTo(runs, repl, n) ==
    IF n = 0 THEN runs
    ELSE replace_text_in_runs(PlaceholdersUpTo(runs, repl, n - 1),
                              repl[n].k, repl[n].v)

\* `for paragraph in ...:` of _replace_text_in_document
ReplaceInParagraphs(paragraphs, repl) ==
    [j \in 1..Len(paragraphs) |-> PlaceholdersUpTo(paragraphs[j], repl, Len(repl))]

\* the k-th smallest of a set of cut places
NthCut(S, k) == CHOOSE c \in S : Cardinality({d \in S : d < c}) = k - 1

\* the paragraph with text t cut into runs after the places of S, run k
\* having formatting b[k]
RunsOf(t, S, b) ==
    [k \in 1..(Cardinality(S) + 1) |->
        Run(SubSeq(t, IF k = 1 THEN 1 ELSE NthCut(S, k - 1) + 1,
                      IF k = Cardinality(S) + 1 THEN Len(t) ELSE NthCut(S, k)),
            b[k])]

\* paragraph texts: a placeholder with text before and after it, and the
\* same placeholder twice
RunsTexts ==
    {<<"Site: ", "the ">> \o Placeholder("property_name") \o <<" lot", ".">>,
     Placeholder("property_name") \o <<" / ">> \o Placeholder("property_name")}

\* values of property_data.property_name: plain, with a double hyphen, the
\* text of a later placeholder of the dict, and empty
RunsNames ==
    {<<"Elm Park">>, <<"Lots 4", "--", "6">>, Placeholder("zoning"), EmptyStr}

\* the replacements dict of the property report, in insertion order (two of
\* its entries)
RunsReplacements(name) ==
    <<[k |-> Placeholder("property_name"), v |-> name],
      [k |-> Placeholder("zoning"), v |-> <<"R-1">>]>>

\* a document with paragraph p in one place
RunsDoc(p, place) ==
    [body   |-> IF place = "body" THEN <<p>> ELSE <<>>,
     cells  |-> IF place = "cells" THEN <<p>> ELSE <<>>,
     header |-> IF place = "header" THEN <<p>> ELSE <<>>,
     footer |-> IF place = "footer" THEN <<p>> ELSE <<>>]

RunsInit ==
    /\ pc = "paragraphs"
    /\ \E t \in RunsTexts, place \in Places :
         \E S \in SUBSET (1..(Len(t) - 1)) :
            /\ Cardinality(S) < MaxRuns
            /\ \E b \in [1..(Cardinality(S) + 1) -> BOOLEAN] :
                  template = RunsDoc(RunsOf(t, S, b), place)
    /\ doc = template
    /\ \E name \in RunsNames : replacements = RunsReplacements(name)
    /\ comps = <<>>
    /\ files = {}
    /\ saved = NoDoc
    /\ pdf = NoPdf
    /\ comp_page_map = <<>>
    /\ page_num = 0
    /\ img_index = 0
    /\ clock = 0
    /\ log = <<>>
    /\ full_text = <<>>
    /\ sections = <<>>
    /\ response = None

\* "Replace in paragraphs"
ReplaceBody ==
    /\ pc = "paragraphs"
    /\ doc' = [doc EXCEPT !.body = ReplaceInParagraphs(@, replacements)]
    /\ pc' = "tables"
    /\ UNCHANGED <<comps, replacements, template, files, saved, pdf,
                   comp_page_map, page_num, img_index, clock, log,
                   full_text, sections, response>>

\* "Replace in tables"
ReplaceTables ==
    /\ pc = "tables"
    /\ doc' = [doc EXCEPT !.cells = ReplaceInParagraphs(@, replacements)]
    /\ pc' = "sections"
    /\ UNCHANGED <<comps, replacements, template, files, saved, pdf,
                   comp_page_map, page_num, img_index, clock, log,
                   full_text, sections, response>>

\* "Replace in headers and footers"
ReplaceSections ==
    /\ pc = "sections"
    /\ doc' = [doc EXCEPT !.header = ReplaceInParagraphs(@, replacements),
                          !.footer = ReplaceInParagraphs(@, replacements)]
    /\ pc' = "replaced"
    /\ UNCHANGED <<comps, replacements, template, files, saved, pdf,
                   comp_page_map, page_num, img_index, clock, log,
                   full_text, sections, response>>

RunsNext == ReplaceBody \/ ReplaceTables \/ ReplaceSections

SpecRuns == RunsInit /\ [][RunsNext]_vars

----------------------------------------------------------------------------
(* SpecExtract: extract_comps_from_pdf applied to bounded PDFs *)

MaxPages == 2

MaxClock == 1

\* Page text is a sequence of fragments: digits, ". " (the dot and the blank
\* after a number), "\n", the words of a heading, the fragments the cleaner
\* removes, and other words.
SoldLand == "Sold Land Property"

\* the page banner "Land Comp Summary Report", in two fragments
Banner == <<"Land Comp", " Summary Report">>

DateStamp == "July 4, 2020"

Vendor == "Colliers"

FooterStart == "All information contained herein"

PageOf == "Page 1 of 2"

SystemId == "System ID: 4821)"

PrimaryUseLabel == "Primary Use:"

MarketLabel == "Market:"

SubMarketLabel == " / Sub-Market:"

Digits == {"0", "1", "2", "3", "4", "5", "6", "7", "8", "9"}

\* an embedded image: its container format, and whether extract_image and
\* the write of its bytes succeed
Image(ext, ok) == [ext |-> ext, ok |-> ok]

PageTexts ==
    {<<>>,
     <<"1", ". ", SoldLand, "\n", SystemId, "\n", "Office Building", "\n",
       PrimaryUseLabel, "Office", "\n",
       MarketLabel, "P", "rovo/Orem", SubMarketLabel, "Central", "\n">>,
     <<"2", ". ", SoldLand, "\n", MarketLabel, SubMarketLabel, "North", "\n">>,
     <<"2", ". ", SoldLand, "\n", "Vacant", "\n", "1", ". ", SoldLand, "\n">>,
     <<SoldLand, "\n", SystemId, "Lot 7", "\n">>,
     <<"1", ". ", DateStamp, SoldLand, "\n">>,
     <<FooterStart, "\n", "2", ". ", SoldLand, "\n", PageOf, "\n">>,
     <<Banner[1], DateStamp, Banner[2], "\n">>,
     <<"7", ". ", SoldLand, "\n", "1", "2", ". ", SoldLand, "\n">>}

PageImages ==
    {<<>>, <<Image("png", TRUE), Image("jpeg", TRUE)>>,
     <<Image("png", FALSE), Image("jpeg", TRUE)>>}

\* int(s) of a string of digits
DigitValue(d) ==
    CHOOSE n \in 0..9 : Digit(n) = d

RECURSIVE int(_)
int(s) ==
    IF s = <<>> THEN 0
    ELSE 10 * int(SubSeq(s, 1, Len(s) - 1)) + DigitValue(s[Len(s)])

\* the end of the run of digits that starts at p, or p - 1 if there is none
RECURSIVE DigitsEnd(_, _)
DigitsEnd(text, p) ==
    IF p <= Len(text) /\ text[p] \in Digits THEN DigitsEnd(text, p + 1) ELSE p - 1

\* the first place at or after p that does not hold "\n"
RECURSIVE SkipNewlines(_, _)
SkipNewlines(text, p) ==
    IF p <= Len(text) /\ text[p] = "\n" THEN SkipNewlines(text, p + 1) ELSE p

\* the end of the line that starts at p: the last place before the next "\n"
RECURSIVE LineEnd(_, _)
LineEnd(text, p) ==
    IF p <= Len(text) /\ text[p] # "\n" THEN LineEnd(text, p + 1) ELSE p - 1

\* the heading pattern (\d+)\.\s+Sold Land (?:Property|Space) matches at p
HeadingAt(text, p) ==
    LET e == DigitsEnd(text, p)
    IN  /\ e >= p
        /\ e + 1 <= Len(text)
        /\ text[e + 1] = ". "
        /\ LET q == SkipNewlines(text, e + 2)
           IN  q <= Len(text) /\ text[q] = SoldLand

\* re.sub(r'All information contained herein.*?Page \d+ of \d+', '', text,
\* flags=re.DOTALL): from each footer start to the nearest page count after it
RECURSIVE RemoveFooters(_)
RemoveFooters(text) ==
    IF \E p \in 1..Len(text) :
          text[p] = FooterStart /\ \E q \in (p + 1)..Len(text) : text[q] = PageOf
    THEN LET p == CHOOSE x \in 1..Len(text) :
                    /\ text[x] = FooterStart
                    /\ \A y \in 1..(x - 1) : text[y] # FooterStart
             q == CHOOSE x \in (p + 1)..Len(text) :
                    /\ text[x] = PageOf
                    /\ \A y \in (p + 1)..(x - 1) : text[y] # PageOf
         IN  SubSeq(text, 1, p - 1) \o RemoveFooters(SubSeq(text, q + 1, Len(text)))
    ELSE text

\* _clean_pdf_text(text)
clean_pdf_text(text) ==
    StrReplace(
        StrReplace(
            StrReplace(RemoveFooters(text), Banner, <<>>),
            <<DateStamp>>, <<>>),
        <<Vendor, "\n">>, <<>>)

\* full_text: page_text + "\n" for every page that has text
RECURSIVE FullText(_)
FullText(pages) ==
    IF pages = <<>> THEN <<>>
    ELSE FullText(SubSeq(pages, 1, Len(pages) - 1))
            \o (IF pages[Len(pages)].text # <<>>
                THEN pages[Len(pages)].text \o <<"\n">> ELSE <<>>)

\* the text is parsed as extracted, without the cleaning
segmented_text_Raw(pages) == FullText(pages)

\* the text handed to _parse_all_comps
segmented_text(pages) == clean_pdf_text(FullText(pages))

\* matches = list(re.finditer(comp_pattern, text)): the starts of the matches
\* from place p on. A match starts where its run of digits starts and runs to
\* the end of the heading's line, and the search goes on after it
RECURSIVE Matches(_, _)
Matches(text, p) ==
    IF p > Len(text) THEN <<>>
    ELSE IF HeadingAt(text, p)
         THEN <<p>> \o Matches(text,
                  LineEnd(text, SkipNewlines(text, DigitsEnd(text, p) + 2)) + 1)
         ELSE Matches(text, p + 1)

\* the number of a record is its position among the matches
match_group1_Position(text, start) ==
    <<Digit(Cardinality({q \in 1..start : HeadingAt(text, q)
                           /\ (q = 1 \/ text[q - 1] \notin Digits)}))>>

\* match.group(1): the digits the heading pattern captured at start
match_group1(text, start) == SubSeq(text, start, DigitsEnd(text, start))

\* the span of a record ends where the next heading starts, that place included
comp_sections_Overlap(text) ==
    LET matches == Matches(text, 1)
    IN  [i \in 1..Len(matches) |->
            [comp_num  |-> int(match_group1(text, matches[i])),
             comp_text |-> SubSeq(text, matches[i],
                                  IF i + 1 <= Len(matches)
                                  THEN matches[i + 1] ELSE Len(text))]]

\* comp_sections: (comp_num, text[start:end]) for each match
comp_sections(text) ==
    LET matches == Matches(text, 1)
    IN  [i \in 1..Len(matches) |->
            [comp_num  |-> int(match_group1(text, matches[i])),
             comp_text |-> SubSeq(text, matches[i],
                                  IF i + 1 <= Len(matches)
                                  THEN matches[i + 1] - 1 ELSE Len(text))]]

\* label followed by \s*([^\n]+) matches at place p of text
LabelAt(text, label, p) ==
    text[p] = label /\ SkipNewlines(text, p + 1) <= Len(text)

\* re.search: the first place of text where the label matches, or 0
FirstPlace(text, label) ==
    IF \E p \in 1..Len(text) : LabelAt(text, label, p)
    THEN CHOOSE p \in 1..Len(text) :
            /\ LabelAt(text, label, p)
            /\ \A q \in 1..(p - 1) : ~LabelAt(text, label, q)
    ELSE 0

\* re.search(r'System ID:\s*\d+\)\s*([^\n]+)', text): group(1) is the rest of
\* the line after the first system id that has one, or the line below it
PropertyName(text) ==
    LET p == FirstPlace(text, SystemId)
        q == SkipNewlines(text, p + 1)
    IN  IF p = 0 THEN None ELSE SubSeq(text, q, LineEnd(text, q))

\* re.search(r'Primary Use:\s*([^\n]+)', text)
PrimaryUse(text) ==
    LET p == FirstPlace(text, PrimaryUseLabel)
        q == SkipNewlines(text, p + 1)
    IN  IF p = 0 THEN None ELSE SubSeq(text, q, LineEnd(text, q))

\* re.search(r'Market:\s*([^/\n]+?)(?:\s*/\s*Sub-Market:\s*([^\n]+))?', text):
\* "Market:" is found wherever it first occurs, also at the end of
\* "Sub-Market:"; the lazy group(1) is one character (here: one fragment) that
\* is neither "/" nor a line break: the blank that starts the sub-market label
\* when the label comes first; group(2) is there only when the sub-market
\* label and a value come right after that character
MarketMatch(text) ==
    LET Hit(k) ==
            /\ text[k] \in {MarketLabel, SubMarketLabel}
            /\ SkipNewlines(text, k + 1) <= Len(text)
            /\ text[SkipNewlines(text, k + 1)] # "/"
        p == IF \E k \in 1..Len(text) : Hit(k)
             THEN CHOOSE k \in 1..Len(text) :
                     Hit(k) /\ \A j \in 1..(k - 1) : ~Hit(j)
             ELSE 0
        q == SkipNewlines(text, p + 1)
        l == IF text[q] = SubMarketLabel THEN q ELSE q + 1
        r == SkipNewlines(text, l + 1)
    IN  IF p = 0 THEN [found |-> FALSE, group1 |-> None, group2 |-> None]
        ELSE [found  |-> TRUE,
              group1 |-> IF text[q] = SubMarketLabel THEN <<" ">> ELSE <<text[q]>>,
              group2 |-> IF /\ l <= Len(text)
                            /\ text[l] = SubMarketLabel
                            /\ r <= Len(text)
                         THEN SubSeq(text, r, LineEnd(text, r))
                         ELSE None]

\* s.strip()
RECURSIVE strip(_)
strip(s) ==
    IF s = <<>> THEN s
    ELSE IF s[1] \in {" ", "\n"} THEN strip(Tail(s))
    ELSE IF s[Len(s)] \in {" ", "\n"} THEN strip(SubSeq(s, 1, Len(s) - 1))
    ELSE s

\* The fragments of a broker section: the heading, the labels that end the
\* section, and the fragments of its lines by what the patterns of the scan
\* find in them.
ListingBroker == "Listing Broker"

BrokerEnds == {"Procuring Broker", "Buyer/Tenant"}

\* fragments that match [\w\.-]+@[\w\.-]+\.\w+
EmailTokens == {"jane@cbc.com", "john@cbc.com"}

\* fragments that match \d{3}[.-]?\d{3}[.-]?\d{4}, and ^[\d.-]+$ as well
PhoneTokens == {"801-555-1234", "801.555.9876"}

\* fragments that hold one of 'role', 'company', 'phone', 'email', 'listing',
\* 'procuring' in lower case
LabelTokens == {"Phone: ", "Email: "}

\* fragments that hold a blank and start with a capital
NameTokens == {"Jane Roe", "John Poe", "CBC Advisors"}

\* text.split('\n')
RECURSIVE split(_)
split(text) ==
    IF \E p \in 1..Len(text) : text[p] = "\n"
    THEN LET p == CHOOSE x \in 1..Len(text) :
                    text[x] = "\n" /\ \A y \in 1..(x - 1) : text[y] # "\n"
         IN  <<SubSeq(text, 1, p - 1)>> \o split(SubSeq(text, p + 1, Len(text)))
    ELSE <<text>>

\* 'Listing Broker\s+' matches at place p
BrokerAt(text, p) ==
    text[p] = ListingBroker /\ p + 1 <= Len(text) /\ text[p + 1] = "\n"

\* re.search(r'Listing Broker\s+(.*?)(?:Procuring Broker|Buyer/Tenant|$)',
\* text, re.DOTALL).group(1), or None: from the first heading to the first end
\* label after it, or to the end of the text (before its last line break)
broker_section(text) ==
    IF \E p \in 1..Len(text) : BrokerAt(text, p)
    THEN LET p    == CHOOSE x \in 1..Len(text) :
                        BrokerAt(text, x) /\ \A y \in 1..(x - 1) : ~BrokerAt(text, y)
             q    == SkipNewlines(text, p + 1)
             ends == {e \in q..Len(text) : text[e] \in BrokerEnds}
             e    == IF ends # {}
                     THEN CHOOSE x \in ends : \A y \in ends : x <= y
                     ELSE IF q <= Len(text) /\ text[Len(text)] = "\n"
                     THEN Len(text)
                     ELSE Len(text) + 1
         IN  SubSeq(text, q, e - 1)
    ELSE None

\* re.search of a pattern in a line: the first fragment of the line that
\* matches it, or None
TokenMatch(line, tokens) ==
    IF \E k \in 1..Len(line) : line[k] \in tokens
    THEN LET k == CHOOSE x \in 1..Len(line) :
                    line[x] \in tokens /\ \A y \in 1..(x - 1) : line[y] \notin tokens
         IN  <<line[k]>>
    ELSE None

\* the condition under which a line is taken as the broker's name, but for
\* `'name' not in info`
IsNameLine(line) ==
    /\ \A k \in 1..Len(line) : line[k] \notin LabelTokens
    /\ line # <<>>
    /\ \E k \in 1..Len(line) : line[k] \notin PhoneTokens
    /\ \A k \in 1..Len(line) : line[k] \notin EmailTokens
    /\ \E k \in 1..Len(line) : line[k] \in NameTokens \cup {" "}

\* the dict info, a key that is not in it having the value None
NoInfo == [company |-> None, name |-> None, phone |-> None, email |-> None]

\* "First line after 'Listing Broker' is usually the company"
CompanyInfo(lines) ==
    LET company == strip(lines[1])
    IN  IF company # <<>> /\ \A k \in 1..Len(company) : company[k] \notin LabelTokens
        THEN [NoInfo EXCEPT !.company = company]
        ELSE NoInfo

\* a later line replaces what an earlier line set
scan_line_Overwrites(info, raw_line) ==
    LET line == strip(raw_line)
    IN  [info EXCEPT
           !.email = IF TokenMatch(line, EmailTokens) # None
                     THEN TokenMatch(line, EmailTokens) ELSE @,
           !.phone = IF TokenMatch(line, PhoneTokens) # None
                     THEN TokenMatch(line, PhoneTokens) ELSE @,
           !.name  = IF IsNameLine(line) THEN line ELSE @]

\* the body of `for i, line in enumerate(lines[1:], 1):`
scan_line(info, raw_line) ==
    LET line == strip(raw_line)
    IN  [info EXCEPT
           !.email = IF TokenMatch(line, EmailTokens) # None /\ @ = None
                     THEN TokenMatch(line, EmailTokens) ELSE @,
           !.phone = IF TokenMatch(line, PhoneTokens) # None /\ @ = None
                     THEN TokenMatch(line, PhoneTokens) ELSE @,
           !.name  = IF IsNameLine(line) /\ @ = None THEN line ELSE @]

\* info after the lines up to the n-th were scanned; the first line is the
\* company line
RECURSIVE ScannedUpTo(_, _)
ScannedUpTo(lines, n) ==
    IF n <= 1 THEN CompanyInfo(lines)
    ELSE scan_line(ScannedUpTo(lines, n - 1), lines[n])

\* _extract_broker_info(text)
extract_broker_info(text) ==
    IF broker_section(text) = None THEN NoInfo
    ELSE ScannedUpTo(split(broker_section(text)), Len(split(broker_section(text))))

\* the record with its defaults, before any field rule
parse_defaults_Null(comp_num) ==
    [CompProperty(comp_num) EXCEPT !.fields["sub_market"] = None]

parse_defaults(comp_num) == CompProperty(comp_num)

\* _parse_single_comp(text, comp_num): the record of one span, or nothing when
\* a rule raises (Optional as a sequence of at most one record). Of the field
\* rules, those for property_name, primary_use, market, sub_market and the
\* listing broker are modelled; the other fields keep their defaults.
parse_single_comp(text, comp_num, raises) ==
    LET comp   == parse_defaults(comp_num)
        name   == PropertyName(text)
        use    == PrimaryUse(text)
        market == MarketMatch(text)
        broker_info == extract_broker_info(text)
    IN  IF raises THEN <<>>
        ELSE <<[comp EXCEPT
                  !.fields["property_name"] =
                      IF name # None THEN strip(name) ELSE @,
                  !.fields["primary_use"] =
                      IF use # None THEN strip(use) ELSE @,
                  !.fields["market"] =
                      IF market.found THEN strip(market.group1) ELSE @,
                  !.fields["sub_market"] =
                      IF market.found /\ Truthy(market.group2)
                      THEN strip(market.group2) ELSE @,
                  !.fields["listing_broker"] =
                      IF broker_info.name # None THEN broker_info.name ELSE @,
                  !.fields["listing_broker_company"] =
                      IF broker_info.company # None THEN broker_info.company ELSE @,
                  !.fields["listing_broker_phone"] =
                      IF broker_info.phone # None THEN broker_info.phone ELSE @,
                  !.fields["listing_broker_email"] =
                      IF broker_info.email # None THEN broker_info.email ELSE @]>>

\* "Parse each comp section": the records of the first n sections, those
\* whose parsing raised left out
RECURSIVE ParsedUpTo(_, _)
ParsedUpTo(secs, n) ==
    IF n = 0 THEN <<>>
    ELSE ParsedUpTo(secs, n - 1)
            \o parse_single_comp(secs[n].comp_text, secs[n].comp_num, secs[n].raises)

\* the logger.error records of the sections whose parsing raised
RECURSIVE ParseErrors(_, _)
ParseErrors(secs, n) ==
    IF n = 0 THEN <<>>
    ELSE ParseErrors(secs, n - 1)
            \o (IF secs[n].raises THEN <<"Error parsing comp">> ELSE <<>>)

\* a section whose parsing raises aborts the batch
parse_all_comps_AbortsOnRaise(secs) ==
    IF \E i \in 1..Len(secs) : secs[i].raises THEN <<>>
    ELSE ParsedUpTo(secs, Len(secs))

\* _parse_all_comps, from its comp_sections on
parse_all_comps(secs) == ParsedUpTo(secs, Len(secs))

\* re.search(r'\d+\.\s+Sold Land (?:Property|Space)', page_text)
PageHasHeading(page) == \E p \in 1..Len(page.text) : HeadingAt(page.text, p)

\* the first loop of _extract_images_from_pdf over pages 1..n: comp_page_map
\* (0-based comp index per page, -1 for a page not in the map) and
\* current_comp_idx
RECURSIVE PageMap(_, _)
PageMap(pages, n) ==
    IF n = 0 THEN [map |-> <<>>, current_comp_idx |-> 0]
    ELSE LET prev == PageMap(pages, n - 1)
         IN  IF PageHasHeading(pages[n])
             THEN [map |-> Append(prev.map, prev.current_comp_idx),
                   current_comp_idx |-> prev.current_comp_idx + 1]
             ELSE IF prev.current_comp_idx > 0
             THEN [map |-> Append(prev.map, prev.current_comp_idx - 1),
                   current_comp_idx |-> prev.current_comp_idx]
             ELSE [map |-> Append(prev.map, -1),
                   current_comp_idx |-> prev.current_comp_idx]

\* an image replaces the one the record already has
takes_image_Always(comp) == TRUE

\* `if not comps[comp_idx].image_path:`
takes_image(comp) == ~Truthy(comp.image_path)

ExtractInit ==
    /\ pc = "start"
    /\ \/ pdf = NoPdf
       \/ \E n \in 0..MaxPages :
            \E ts \in [1..n -> PageTexts], im \in [1..n -> PageImages] :
               pdf = [readable |-> TRUE,
                      pages |-> [k \in 1..n |-> [text |-> ts[k], images |-> im[k]]]]
    /\ comps = <<>>
    /\ replacements = <<>>
    /\ template = NoDoc
    /\ doc = NoDoc
    /\ files = {}
    /\ saved = NoDoc
    /\ comp_page_map = <<>>
    /\ page_num = 0
    /\ img_index = 0
    /\ clock = 0
    /\ log = <<>>
    /\ full_text = <<>>
    /\ sections = <<>>
    /\ response = None

\* pdfplumber.open raises: the except clause logs, and comps is returned
OpenFails ==
    /\ pc = "start"
    /\ ~pdf.readable
    /\ log' = Append(log, "Error extracting data from PDF")
    /\ pc' = "returned"
    /\ UNCHANGED <<comps, replacements, template, doc, files, saved, pdf,
                   comp_page_map, page_num, img_index, clock,
                   full_text, sections, response>>

\* the text of the pages is joined, cleaned, segmented and parsed; parsing a
\* section may raise inside _parse_single_comp
ExtractText ==
    /\ pc = "start"
    /\ pdf.readable
    /\ full_text' = segmented_text(pdf.pages)
    /\ \E raising \in SUBSET (1..Len(comp_sections(full_text'))) :
          sections' = [i \in 1..Len(comp_sections(full_text')) |->
                          [comp_num  |-> comp_sections(full_text')[i].comp_num,
                           comp_text |-> comp_sections(full_text')[i].comp_text,
                           raises    |-> i \in raising]]
    /\ comps' = parse_all_comps(sections')
    /\ log' = log \o ParseErrors(sections', Len(sections'))
    /\ pc' = "page_map"
    /\ UNCHANGED <<replacements, template, doc, files, saved, pdf,
                   comp_page_map, page_num, img_index, clock, response>>

\* _extract_images_from_pdf: the mapping of pages to comps
BuildPageMap ==
    /\ pc = "page_map"
    /\ comp_page_map' = PageMap(pdf.pages, Len(pdf.pages)).map
    /\ page_num' = 1
    /\ img_index' = 1
    /\ pc' = "images"
    /\ UNCHANGED <<comps, replacements, template, doc, files, saved, pdf,
                   clock, log, full_text, sections, response>>

\* the page the second loop is at is owned by a record of the list
PageOwned ==
    /\ page_num <= Len(pdf.pages)
    /\ comp_page_map[page_num] # -1
    /\ comp_page_map[page_num] < Len(comps)

\* the try of one image without its except: the exception leaves the loops
extract_image_Uncaught(img) ==
    [saved |-> img.ok, logged |-> FALSE, raised |-> ~img.ok]

\* `try:` extract_image, open, write, set image_path `except Exception:` for
\* one image: whether the image was saved, whether an error is logged, and
\* whether an exception leaves the try statement
extract_image(img) ==
    [saved |-> img.ok, logged |-> ~img.ok, raised |-> FALSE]

\* one iteration of `for img_index, img in enumerate(image_list)`; an
\* exception that left it would be caught by the except clause of
\* _extract_images_from_pdf, which ends the walk
ExtractImage ==
    /\ pc = "images"
    /\ PageOwned
    /\ img_index <= Len(pdf.pages[page_num].images)
    /\ LET comp_idx == comp_page_map[page_num] + 1
           img      == pdf.pages[page_num].images[img_index]
           result   == extract_image(img)
       IN  IF ~takes_image(comps[comp_idx])
           THEN /\ img_index' = img_index + 1
                /\ UNCHANGED <<comps, files, clock, log, pc>>
           ELSE IF result.raised
           THEN /\ log' = Append(log, "Error extracting images from PDF")
                /\ pc' = "returned"
                /\ UNCHANGED <<comps, files, clock, img_index>>
           ELSE IF result.saved
           THEN \E now \in clock..MaxClock :
                   LET image_path ==
                           ImagePath(comps[comp_idx].comp_number, now, img.ext)
                   IN  /\ clock' = now
                       /\ files' = files \cup {image_path}
                       /\ comps' = [comps EXCEPT ![comp_idx].image_path = image_path]
                       /\ img_index' = img_index + 1
                       /\ UNCHANGED <<log, pc>>
           ELSE /\ log' = IF result.logged
                          THEN Append(log, "Error extracting image") ELSE log
                /\ img_index' = img_index + 1
                /\ UNCHANGED <<comps, files, clock, pc>>
    /\ UNCHANGED <<replacements, template, doc, saved, pdf, comp_page_map,
                   page_num, full_text, sections, response>>

\* the page is skipped, or its images are done
NextPage ==
    /\ pc = "images"
    /\ page_num <= Len(pdf.pages)
    /\ ~PageOwned \/ img_index > Len(pdf.pages[page_num].images)
    /\ page_num' = page_num + 1
    /\ img_index' = 1
    /\ UNCHANGED <<pc, comps, replacements, template, doc, files, saved, pdf,
                   comp_page_map, clock, log, full_text, sections, response>>

\* pdf_document.close(); return comps
ReturnComps ==
    /\ pc = "images"
    /\ page_num > Len(pdf.pages)
    /\ pc' = "returned"
    /\ UNCHANGED <<comps, replacements, template, doc, files, saved, pdf,
                   comp_page_map, page_num, img_index, clock, log,
                   full_text, sections, response>>

\* what process_comps answers when extraction returned no record: it opens
\* the PDF again, and reports the text preview and whether the heading
\* pattern occurs in the text; when that raises, the bare error
NoCompsResponse(p) ==
    IF ~p.readable
    THEN [error |-> "No comparable properties found in PDF",
          details |-> None, content_preview |-> None]
    ELSE [error |-> "No comparable properties found in PDF",
          details |-> IF \E q \in 1..Len(FullText(p.pages)) :
                            HeadingAt(FullText(p.pages), q)
                      THEN <<"Found potential entries but parsing failed">>
                      ELSE <<"PDF does not contain expected entries">>,
          content_preview |-> FullText(p.pages)]

\* process_comps after extract_comps_from_pdf returned: `if not comps:` it
\* answers 400, otherwise it goes on to render the report
Respond ==
    /\ pc = "returned"
    /\ response' = IF comps = <<>> THEN NoCompsResponse(pdf)
                   ELSE [error |-> None, details |-> None, content_preview |-> None]
    /\ pc' = "responded"
    /\ UNCHANGED <<comps, replacements, template, doc, files, saved, pdf,
                   comp_page_map, page_num, img_index, clock, log,
                   full_text, sections>>

ExtractNext ==
    \/ OpenFails \/ ExtractText \/ BuildPageMap \/ ExtractImage \/ NextPage
    \/ ReturnComps \/ Respond

SpecExtract == ExtractInit /\ [][ExtractNext]_vars

----------------------------------------------------------------------------
(* SpecParse: _parse_all_comps applied to the text of one record with a    *)
(* listing broker section of bounded length                                *)

MaxLines == 3

\* lines of a broker section: a name, an email, a phone number, each bare or
\* behind its label, a name and a phone number on one line, an empty line
BrokerLines ==
    {<<"Jane Roe">>, <<"John Poe">>, <<"jane@cbc.com">>,
     <<"Email: ", "john@cbc.com">>, <<"801-555-1234">>,
     <<"Phone: ", "801.555.9876">>, <<"Jane Roe", " ", "801-555-1234">>, <<>>}

\* what follows the scanned lines: nothing, or the section of the procuring
\* broker
BrokerTails ==
    {<<>>, <<"Procuring Broker", "\n", "Ann Lee", "\n", "ann@kw.com", "\n">>}

\* the lines, each with its line break
RECURSIVE JoinLines(_)
JoinLines(lines) ==
    IF lines = <<>> THEN <<>>
    ELSE lines[1] \o <<"\n">> \o JoinLines(Tail(lines))

\* the text of record 1: heading, broker heading, company line, lines, tail
BrokerText(lines, tail) ==
    <<"1", ". ", SoldLand, "\n", ListingBroker, "\n", "CBC Advisors", "\n">>
        \o JoinLines(lines) \o tail

ParseInit ==
    /\ pc = "text"
    /\ \E n \in 0..MaxLines : \E lines \in [1..n -> BrokerLines] :
          \E tail \in BrokerTails : full_text = BrokerText(lines, tail)
    /\ sections = <<>>
    /\ comps = <<>>
    /\ replacements = <<>>
    /\ template = NoDoc
    /\ doc = NoDoc
    /\ files = {}
    /\ saved = NoDoc
    /\ pdf = NoPdf
    /\ comp_page_map = <<>>
    /\ page_num = 0
    /\ img_index = 0
    /\ clock = 0
    /\ log = <<>>
    /\ response = None

\* "Split text into comp sections"
SplitSections ==
    /\ pc = "text"
    /\ sections' = [i \in 1..Len(comp_sections(full_text)) |->
                      [comp_num  |-> comp_sections(full_text)[i].comp_num,
                       comp_text |-> comp_sections(full_text)[i].comp_text,
                       raises    |-> FALSE]]
    /\ pc' = "sections"
    /\ UNCHANGED <<comps, replacements, template, doc, files, saved, pdf,
                   comp_page_map, page_num, img_index, clock, log,
                   full_text, response>>

\* "Parse each comp section"
ParseSections ==
    /\ pc = "sections"
    /\ comps' = parse_all_comps(sections)
    /\ pc' = "parsed"
    /\ UNCHANGED <<replacements, template, doc, files, saved, pdf,
                   comp_page_map, page_num, img_index, clock, log,
                   full_text, sections, response>>

ParseNext == SplitSections \/ ParseSections

SpecParse == ParseInit /\ [][ParseNext]_vars

----------------------------------------------------------------------------
(* SpecIsolated and SpecShared: two invocations of extract and render that *)
(* run at the same time, on extractors with output directories of their    *)
(* own, and on the one extractor of the API. Here every variable of an     *)
(* invocation is a function of the invocation; the clock and the files are *)
(* shared, and a file is a record of its path, the invocation that wrote   *)
(* it last and its content. The PDF of an invocation has one page with one *)
(* png image for each record.                                              *)

Procs == {1, 2}

\* CompExtractor(output_dir=...) of a caller that gives every invocation a
\* directory of its own
IsolatedDir(p) == IF p = 1 THEN "reports_a" ELSE "reports_b"

\* comp_extractor = CompExtractor(output_dir="property_reports"), the one
\* extractor of the API
SharedDir(p) == "property_reports"

\* the file name is used as it is, relative to the working directory
FilePath_NoDir(output_dir, name) == name

\* self.output_dir / name
FilePath(output_dir, name) == <<output_dir, "/">> \o name

\* open(path, "wb").write(...), doc.save(path): the file at path is replaced
WriteFile(fs, path, p, content) ==
    {f \in fs : f.path # path} \cup {[path |-> path, by |-> p, content |-> content]}

\* the content of the file at path, None when there is none
ReadFile(fs, path) ==
    IF \E f \in fs : f.path = path
    THEN (CHOOSE f \in fs : f.path = path).content
    ELSE None

\* the report replace_keywords_in_document builds from the records: their
\* numbers, and for each record the picture add_picture reads from its
\* image path
ReportOf(cs, fs) ==
    [numbers  |-> [k \in 1..Len(cs) |-> cs[k].comp_number],
     pictures |-> [k \in 1..Len(cs) |->
                     IF Truthy(cs[k].image_path)
                     THEN ReadFile(fs, cs[k].image_path) ELSE None]]

ConcurrentInit ==
    /\ pc = [p \in Procs |-> "images"]
    \* the heading numbers of the PDF of each request
    /\ \E ords \in [Procs -> {<<1>>, <<2>>, <<1, 2>>}] :
          comps = [p \in Procs |->
                     [k \in 1..Len(ords[p]) |-> CompProperty(ords[p][k])]]
    /\ page_num = [p \in Procs |-> 1]
    /\ doc = [p \in Procs |-> None]
    /\ saved = [p \in Procs |-> None]
    /\ files = {}
    /\ clock = 0
    /\ replacements = <<>>
    /\ template = NoDoc
    /\ pdf = NoPdf
    /\ comp_page_map = <<>>
    /\ img_index = 0
    /\ log = <<>>
    /\ full_text = <<>>
    /\ sections = <<>>
    /\ response = None

\* datetime.now() moves on
Tick ==
    /\ clock < MaxClock
    /\ clock' = clock + 1
    /\ UNCHANGED <<pc, comps, replacements, template, doc, files, saved, pdf,
                   comp_page_map, page_num, img_index, log, full_text,
                   sections, response>>

\* the image of the page of the next record is written and attached
SaveImage(p, output_dir) ==
    /\ pc[p] = "images"
    /\ page_num[p] <= Len(comps[p])
    /\ LET k          == page_num[p]
           image_path == FilePath(output_dir,
                                  ImagePath(comps[p][k].comp_number, clock, "png"))
       IN  /\ files' = WriteFile(files, image_path, p, <<"image", p, k>>)
           /\ comps' = [comps EXCEPT ![p][k].image_path = image_path]
    /\ page_num' = [page_num EXCEPT ![p] = @ + 1]
    /\ UNCHANGED <<pc, replacements, template, doc, saved, pdf, comp_page_map,
                   img_index, clock, log, full_text, sections, response>>

\* extract_comps_from_pdf returns, replace_keywords_in_document is called
ReturnRecords(p) ==
    /\ pc[p] = "images"
    /\ page_num[p] > Len(comps[p])
    /\ pc' = [pc EXCEPT ![p] = "render"]
    /\ UNCHANGED <<comps, replacements, template, doc, files, saved, pdf,
                   comp_page_map, page_num, img_index, clock, log, full_text,
                   sections, response>>

\* the text and the images are replaced in the document
RenderReport(p) ==
    /\ pc[p] = "render"
    /\ doc' = [doc EXCEPT ![p] = ReportOf(comps[p], files)]
    /\ pc' = [pc EXCEPT ![p] = "save"]
    /\ UNCHANGED <<comps, replacements, template, files, saved, pdf,
                   comp_page_map, page_num, img_index, clock, log, full_text,
                   sections, response>>

\* output_path is built, doc.save(output_path), return str(output_path)
SaveReport(p, output_dir) ==
    /\ pc[p] = "save"
    /\ LET output_path ==
               FilePath(output_dir,
                        <<"Report_with_Comps_">> \o str(clock) \o <<".docx">>)
       IN  /\ files' = WriteFile(files, output_path, p, doc[p])
           /\ saved' = [saved EXCEPT ![p] = output_path]
    /\ pc' = [pc EXCEPT ![p] = "done"]
    /\ UNCHANGED <<comps, replacements, template, doc, pdf, comp_page_map,
                   page_num, img_index, clock, log, full_text, sections,
                   response>>

IsolatedNext ==
    \/ Tick
    \/ \E p \in Procs :
          \/ SaveImage(p, IsolatedDir(p))
          \/ ReturnRecords(p)
          \/ RenderReport(p)
          \/ SaveReport(p, IsolatedDir(p))

SpecIsolated == ConcurrentInit /\ [][IsolatedNext]_vars

SharedNext ==
    \/ Tick
    \/ \E p \in Procs :
          \/ SaveImage(p, SharedDir(p))
          \/ ReturnRecords(p)
          \/ RenderReport(p)
          \/ SaveReport(p, SharedDir(p))

SpecShared == ConcurrentInit /\ [][SharedNext]_vars

----------------------------------------------------------------------------
(* Properties of extract_comps_from_pdf, under SpecExtract *)

\* the heading pattern matches somewhere in the text
HasHeading(text) == \E p \in 1..Len(text) : HeadingAt(text, p)

\* C6, as claimed: an input whose text holds no record heading yields the
\* empty list, and the image step attaches and saves nothing.
C6_NoHeadingInInputEmptyList ==
    ~HasHeading(FullText(pdf.pages)) =>
        /\ comps = <<>>
        /\ files = {}

\* What does hold: an input whose text, once cleaned by _clean_pdf_text, holds
\* no record heading yields the empty list; extraction ends by returning, and
\* the image step attaches and saves nothing.
C6_NoHeadingEmptyList ==
    ~HasHeading(clean_pdf_text(FullText(pdf.pages))) =>
        /\ comps = <<>>
        /\ files = {}
        /\ pc \in {"start", "page_map", "images", "returned", "responded"}

\* a readable PDF of two pages with images, one page with a heading that
\* lacks its number and one whose heading is inside a page footer, after
\* extraction has returned
C6_Witness ==
    /\ pc = "returned"
    /\ pdf.readable
    /\ Len(pdf.pages) = 2
    /\ pdf.pages[1].text = <<SoldLand, "\n", SystemId, "Lot 7", "\n">>
    /\ pdf.pages[2].text
          = <<FooterStart, "\n", "2", ". ", SoldLand, "\n", PageOf, "\n">>
    /\ Len(pdf.pages[1].images) > 0
    /\ Len(pdf.pages[2].images) > 0
    /\ comps = <<>>
    /\ files = {}

\* C10: once the image path of a record is set, no later image, on the same
\* page or on a later page of the record, overwrites it.
C10_FirstImageWins ==
    [][\A j \in 1..Len(comps) :
          Truthy(comps[j].image_path) =>
              /\ Len(comps') = Len(comps)
              /\ comps'[j].image_path = comps[j].image_path]_vars

\* the record took the first image of its first page; the second image of
\* that page and both images of its next page have been passed over
C10_Witness ==
    /\ pc = "images"
    /\ PageOwned
    /\ img_index = 3
    /\ pdf.pages[page_num].images = <<Image("png", TRUE), Image("jpeg", TRUE)>>
    /\ page_num = 2
    /\ comp_page_map[1] = comp_page_map[2]
    /\ pdf.pages[1].images = <<Image("png", TRUE), Image("jpeg", TRUE)>>
    /\ LET path == comps[comp_page_map[page_num] + 1].image_path
       IN  Truthy(path) /\ path[Len(path)] = "png"

\* the numbers of the headings on the page that owns page n: the headings of
\* page n itself, or else those of the nearest earlier page that has any
RECURSIVE OwnerNumbers(_, _)
OwnerNumbers(pages, n) ==
    IF n = 0 THEN {}
    ELSE IF PageHasHeading(pages[n])
         THEN {comp_sections(pages[n].text)[i].comp_num :
                  i \in 1..Len(comp_sections(pages[n].text))}
         ELSE OwnerNumbers(pages, n - 1)

\* C11: an image of a page is attached only to the record whose heading is
\* the most recent one on or before that page (stated through the heading
\* number: the record that takes the image carries the number of a heading of
\* the owning page).
C11_ImageGoesToLatestHeading ==
    [][pc = "images" =>
          \A j \in 1..Len(comps) :
             comps'[j].image_path # comps[j].image_path =>
                comps[j].comp_number \in OwnerNumbers(pdf.pages, page_num)]_vars

\* the records of the sections whose parsing did not raise, in source order
RECURSIVE KeptSections(_)
KeptSections(secs) ==
    IF secs = <<>> THEN <<>>
    ELSE KeptSections(SubSeq(secs, 1, Len(secs) - 1))
            \o (IF secs[Len(secs)].raises THEN <<>> ELSE <<secs[Len(secs)]>>)

\* C12: of k record spans of which any subset raise in _parse_single_comp,
\* _parse_all_comps returns exactly the records of the other spans, in source
\* order, logs one error for each dropped span, and does not raise.
C12_RaisingSpansAreDropped ==
    pc \in {"page_map", "images", "returned", "responded"} =>
        LET kept == KeptSections(sections)
        IN  /\ Len(comps) = Len(kept)
            /\ \A k \in 1..Len(kept) :
                  /\ comps[k].comp_number = kept[k].comp_num
                  /\ comps[k].fields["property_name"]
                        = (IF PropertyName(kept[k].comp_text) = None THEN EmptyStr
                           ELSE strip(PropertyName(kept[k].comp_text)))
            /\ Len(log) >= Len(sections) - Len(kept)
            /\ Cardinality({i \in 1..Len(log) : log[i] = "Error parsing comp"})
                  = Len(sections) - Len(kept)

\* three spans of which the middle one raised: the first and the third are
\* returned, in that order
C12_Witness ==
    /\ pc = "returned"
    /\ Len(sections) = 3
    /\ ~sections[1].raises
    /\ sections[2].raises
    /\ ~sections[3].raises
    /\ Len(comps) = 2
    /\ comps[1].comp_number = sections[1].comp_num
    /\ comps[2].comp_number = sections[3].comp_num
    /\ sections[1].comp_num # sections[3].comp_num

\* what extract_comps_from_pdf returns for a readable PDF without headings
NoRecordsOutcome == <<>>

\* C13: the caller of extract_comps_from_pdf and of process_comps sees, for
\* an unreadable PDF, an outcome that differs from the outcome for a readable
\* PDF without headings, which carries a text preview.
C13_UnreadableIsDistinguished ==
    /\ (pc \in {"returned", "responded"} /\ ~pdf.readable) =>
          comps # NoRecordsOutcome
    /\ (pc = "responded" /\ comps = <<>>) =>
          IF pdf.readable THEN response.content_preview # None
          ELSE response # NoCompsResponse([readable |-> TRUE, pages |-> <<>>])

\* C15: cleaning the cleaned text changes nothing.
C15_CleanIsIdempotent ==
    (pc # "start" /\ pdf.readable) => clean_pdf_text(full_text) = full_text

\* C17: every record of the result has every text field, as a string (the
\* empty string when its rule found nothing), never null; only the image
\* reference may be unset.
C17_FieldsAreStrings ==
    \A j \in 1..Len(comps) :
        /\ DOMAIN comps[j].fields = TextFieldSet
        /\ \A f \in TextFieldSet : comps[j].fields[f] # None

\* a returned record whose name and market rules matched and whose
\* sub-market, address and the rest found nothing, with no image
C17_Witness ==
    /\ pc = "returned"
    /\ Len(comps) >= 1
    /\ comps[1].fields["property_name"] = <<"Office Building">>
    /\ comps[1].fields["market"] = <<"P">>
    /\ comps[1].fields["sub_market"] = EmptyStr
    /\ comps[1].fields["address"] = EmptyStr
    /\ comps[1].image_path = None

C19_ImageNeverShared ==
    \A i, j \in 1..Len(comps) :
        (i # j /\ Truthy(comps[i].image_path)) =>
            comps[i].image_path # comps[j].image_path

\* the texts of the sections, joined
RECURSIVE JoinedSections(_)
JoinedSections(secs) ==
    IF secs = <<>> THEN <<>>
    ELSE JoinedSections(SubSeq(secs, 1, Len(secs) - 1)) \o secs[Len(secs)].comp_text

AtFailingImage ==
    /\ pc = "images"
    /\ PageOwned
    /\ img_index <= Len(pdf.pages[page_num].images)
    /\ ~pdf.pages[page_num].images[img_index].ok
    /\ ~Truthy(comps[comp_page_map[page_num] + 1].image_path)

\* C24: an image whose extraction or saving fails is logged and skipped: the
\* walk goes on with the next image of the page, the record's image stays
\* unset and no file is written; extraction walks every page and returns
\* the records that parsed, and a record that owns a page with an image that
\* can be extracted has an image in the end.
C24_FailedImageIsSkipped ==
    /\ [][AtFailingImage =>
            /\ pc' = "images"
            /\ page_num' = page_num
            /\ img_index' = img_index + 1
            /\ comps' = comps
            /\ files' = files
            /\ log' = Append(log, "Error extracting image")]_vars
    /\ []((pc \in {"returned", "responded"} /\ pdf.readable) =>
            /\ page_num > Len(pdf.pages)
            /\ Len(comps) = Len(KeptSections(sections))
            /\ \A n \in 1..Len(pdf.pages) :
                  (/\ comp_page_map[n] # -1
                   /\ comp_page_map[n] < Len(comps)
                   /\ \E i \in 1..Len(pdf.pages[n].images) : pdf.pages[n].images[i].ok)
                  => Truthy(comps[comp_page_map[n] + 1].image_path))

\* the first image of page 1 failed, its second image was attached to record
\* 1, and the image of page 2 was attached to record 2
C24_Witness ==
    /\ pc = "returned"
    /\ Len(pdf.pages) = 2
    /\ pdf.pages[1].images = <<Image("png", FALSE), Image("jpeg", TRUE)>>
    /\ Len(comps) = 2
    /\ comp_page_map = <<0, 1>>
    /\ log = <<"Error extracting image">>
    /\ Truthy(comps[1].image_path)
    /\ comps[1].image_path[Len(comps[1].image_path)] = "jpeg"
    /\ Truthy(comps[2].image_path)

\* C26: for a span with the line 'Market: M / Sub-Market: S' the record has
\* market = M, the whole of it, and sub_market = S.
C26_MarketIsWholeName ==
    pc \in {"page_map", "images", "returned", "responded"} =>
        \A k \in 1..Len(comps) :
            LET text == KeptSections(sections)[k].comp_text
            IN  \A p \in 1..Len(text) : \A l \in (p + 2)..(Len(text) - 1) :
                   (/\ text[p] = MarketLabel
                    /\ \A q \in 1..(p - 1) : text[q] \notin {MarketLabel, SubMarketLabel}
                    /\ text[l] = SubMarketLabel
                    /\ \A q \in (p + 1)..(l - 1) : text[q] \notin {"\n", SubMarketLabel}
                    /\ text[l + 1] # "\n")
                   =>
                   /\ comps[k].fields["market"] = SubSeq(text, p + 1, l - 1)
                   /\ comps[k].fields["sub_market"]
                         = SubSeq(text, l + 1, LineEnd(text, l + 1))

\* the ordinals of the records of a text, in source order
Ordinals(text) ==
    [i \in 1..Len(comp_sections(text)) |-> comp_sections(text)[i].comp_num]

\* C29: cleaning removes no record: the cleaned text has the same sequence of
\* ordinals as the text of the pages itself.
C29_CleaningKeepsTheRecords ==
    (pc # "start" /\ pdf.readable) =>
        /\ full_text = clean_pdf_text(FullText(pdf.pages))
        /\ Ordinals(full_text) = Ordinals(FullText(pdf.pages))

----------------------------------------------------------------------------
(* Properties of _extract_broker_info, under SpecParse *)

\* the lines the scan visits: those of the broker section after its first
ScannedLines ==
    LET lines == split(broker_section(sections[1].comp_text))
    IN  [k \in 1..(Len(lines) - 1) |-> strip(lines[k + 1])]

\* the first line that satisfies Kind, or 0
FirstLine(lines, Kind(_)) ==
    IF \E k \in 1..Len(lines) : Kind(lines[k])
    THEN CHOOSE k \in 1..Len(lines) :
            Kind(lines[k]) /\ \A j \in 1..(k - 1) : ~Kind(lines[j])
    ELSE 0

HasEmail(line) == \E k \in 1..Len(line) : line[k] \in EmailTokens

HasPhone(line) == \E k \in 1..Len(line) : line[k] \in PhoneTokens

\* C25: each of email, phone and name is set by the first scanned line that
\* matches its kind (it is the empty string when no line does), and once set
\* it is not changed by a later line.
C25_FirstMatchOfEachKindWins ==
    pc = "parsed" =>
        LET lines == ScannedLines
            e     == FirstLine(lines, HasEmail)
            p     == FirstLine(lines, HasPhone)
            n     == FirstLine(lines, IsNameLine)
            all   == split(broker_section(sections[1].comp_text))
        IN  /\ Len(comps) = 1
            /\ comps[1].fields["listing_broker_email"]
                  = (IF e = 0 THEN EmptyStr
                     ELSE <<CHOOSE t \in EmailTokens :
                              \E k \in 1..Len(lines[e]) :
                                 /\ lines[e][k] = t
                                 /\ \A j \in 1..(k - 1) : lines[e][j] \notin EmailTokens>>)
            /\ comps[1].fields["listing_broker_phone"]
                  = (IF p = 0 THEN EmptyStr
                     ELSE <<CHOOSE t \in PhoneTokens :
                              \E k \in 1..Len(lines[p]) :
                                 /\ lines[p][k] = t
                                 /\ \A j \in 1..(k - 1) : lines[p][j] \notin PhoneTokens>>)
            /\ comps[1].fields["listing_broker"]
                  = (IF n = 0 THEN EmptyStr ELSE lines[n])
            /\ \A k \in 1..(Len(all) - 1) : \A kind \in {"email", "phone", "name"} :
                  ScannedUpTo(all, k)[kind] # None
                     => ScannedUpTo(all, k + 1)[kind] = ScannedUpTo(all, k)[kind]

\* two names, two phone numbers and two emails among the lines: the first of
\* each is in the record
C25_Witness ==
    /\ pc = "parsed"
    /\ Len(comps) = 1
    /\ LET lines == ScannedLines
       IN  /\ Cardinality({k \in 1..Len(lines) : IsNameLine(lines[k])}) >= 2
           /\ lines[1] = <<"Jane Roe", " ", "801-555-1234">>
           /\ lines[2] = <<"Phone: ", "801.555.9876">>
           /\ lines[3] = <<"John Poe">>
    /\ comps[1].fields["listing_broker"] = <<"Jane Roe", " ", "801-555-1234">>
    /\ comps[1].fields["listing_broker_phone"] = <<"801-555-1234">>
    /\ comps[1].fields["listing_broker_email"] = EmptyStr
    /\ comps[1].fields["listing_broker_company"] = <<"CBC Advisors">>

----------------------------------------------------------------------------
(* Properties of replace_keywords_in_document, under Spec *)

\* the paragraphs of the document: body, table cells, section header and footer
AllParagraphs(d) == d.body \o d.cells \o d.header \o d.footer

HasPicture(runs, path) == \E r \in 1..Len(runs) : runs[r].pic = path

\* the record of slot i, when the slot has one
HasRecord(i) == i <= Len(sorted_comps(comps))

SlotRecord(i) == sorted_comps(comps)[i]

\* C1: after substitution no paragraph of the body, of a table cell, of a
\* header or of a footer still contains a keyword of the replacement map.
C1_NoKeywordLeftAnywhere ==
    pc = "done" =>
        \A j \in 1..Len(AllParagraphs(saved)) : \A e \in 1..Len(replacements) :
            ~Contains(ParagraphText(AllParagraphs(saved)[j]), replacements[e].k)

\* C7: with zero records every text keyword is replaced by the empty string:
\* the sample paragraph renders as "Comp: " and no paragraph of the output
\* holds the literal token of any slot and text field.
C7_ZeroRecordsLeaveNoToken ==
    (pc = "done" /\ comps = <<>>) =>
        /\ ParagraphText(saved.body[1]) = <<"Comp: ">>
        /\ \A j \in 1..Len(AllParagraphs(saved)) : \A kw \in TextKeywords :
              ~Contains(ParagraphText(AllParagraphs(saved)[j]), kw)

\* C8: for a slot whose record has an image file that exists and a body
\* paragraph of the template holding the slot's image keyword, text
\* substitution leaves the keyword in place, and the saved paragraph holds the
\* picture and neither the keyword nor the file path as text.
C8_ImageInsertedAfterText ==
    \A i \in 1..NumSlots : \A j \in 1..Len(template.body) :
        (/\ HasRecord(i)
         /\ Truthy(SlotRecord(i).image_path)
         /\ SlotRecord(i).image_path \in files
         /\ Contains(ParagraphText(template.body[j]), Keyword(i, "image")))
        =>
        /\ pc = "images" => Contains(ParagraphText(doc.body[j]), Keyword(i, "image"))
        /\ pc = "done" =>
              /\ HasPicture(saved.body[j], SlotRecord(i).image_path)
              /\ ~Contains(ParagraphText(saved.body[j]), Keyword(i, "image"))
              /\ ~Contains(ParagraphText(saved.body[j]), SlotRecord(i).image_path)

\* C9: when the record of a slot has no image, or an image path whose file
\* does not exist, the literal image keyword of the slot is still in the
\* rendered paragraph.
C9_MissingImageKeepsKeyword ==
    pc = "done" =>
        \A i \in 1..NumSlots : \A j \in 1..Len(template.body) :
            (/\ HasRecord(i)
             /\ SlotRecord(i).image_path \notin files
             /\ Contains(ParagraphText(template.body[j]), Keyword(i, "image")))
            => Contains(ParagraphText(saved.body[j]), Keyword(i, "image"))

\* the text keywords are gone from every body and table-cell paragraph
TextKeywordsReplaced(d) ==
    \A j \in 1..Len(d.body \o d.cells) : \A kw \in TextKeywords :
        ~Contains(ParagraphText((d.body \o d.cells)[j]), kw)

\* C14: once the template has loaded, replace_keywords_in_document saves and
\* returns a document for any record list: no exception leaves it, the save
\* that follows the image loop can always be taken, and with an image
\* file missing or an insertion failing the text keywords of every slot are
\* still replaced in the saved document and the sample paragraph still shows
\* the sale price of slot 1.
C14_DocumentAlwaysSaved ==
    /\ pc \in {"start", "text", "images", "save", "done"}
    /\ pc = "save" => ENABLED SaveDocument
    /\ pc = "done" =>
          /\ saved = doc
          /\ Len(saved.body) = Len(template.body)
          /\ TextKeywordsReplaced(saved)
          /\ ParagraphText(saved.body[1])
                = <<"Comp: ">> \o Get(replacements, Keyword(1, "sale_price"))

\* the image of slot 1 exists and cannot be read as a picture; its keyword
\* was in the second body paragraph when the image loop ran: the insertion
\* failed and was logged, the paragraph has no picture, and the sample
\* paragraph shows the sale price
C14_Witness ==
    /\ pc = "done"
    /\ Len(comps) >= 1
    /\ SlotRecord(1).image_path = BadPath
    /\ SlotRecord(1).fields["sale_price"] = <<"$", "1,200,000">>
    /\ Len(template.body) = 2
    /\ ParagraphText(template.body[2]) = NestedImageText
    /\ log = <<"Error adding image">>
    /\ ParagraphText(saved.body[2]) = <<>>
    /\ ~HasPicture(saved.body[2], BadPath)
    /\ ParagraphText(saved.body[1]) = <<"Comp: ", "$", "1,200,000">>

\* C16: a text keyword that lies inside one run of a body paragraph whose
\* other runs hold no keyword is replaced in that run: afterwards the run
\* holds the replacement text with the formatting it had, the paragraph has
\* no residual token, and every other run has the text and formatting it had.
C16_ReplacedInPlaceInItsRun ==
    pc = "done" =>
        \A j \in 1..Len(template.body) : \A r \in 1..Len(template.body[j]) :
            \A kw \in TextKeywords :
                (/\ Contains(template.body[j][r].text, kw)
                 /\ \A q \in 1..Len(template.body[j]) :
                       q # r => ~Contains(template.body[j][q].text, <<"{{comp">>))
                =>
                /\ Len(saved.body[j]) = Len(template.body[j])
                /\ saved.body[j][r].bold = template.body[j][r].bold
                /\ Contains(saved.body[j][r].text, Get(replacements, kw))
                /\ ~Contains(ParagraphText(saved.body[j]), kw)
                /\ \A q \in 1..Len(template.body[j]) :
                      q # r => saved.body[j][q] = template.body[j][q]

\* the paragraphs replace_in_paragraph is called on
VisitedParagraphs(d) == d.body \o d.cells

\* C23: the text inserted for a keyword has an en dash wherever the value has
\* a double hyphen: a paragraph that held the keyword of such a value holds
\* the converted value afterwards, and no double hyphen.
C23_DoubleHyphenBecomesEnDash ==
    pc = "done" =>
        \A j \in 1..Len(VisitedParagraphs(template)) : \A kw \in TextKeywords :
            LET old   == ParagraphText(VisitedParagraphs(template)[j])
                new   == ParagraphText(VisitedParagraphs(saved)[j])
                value == Get(replacements, kw)
            IN  (Contains(old, kw) /\ Contains(value, <<"--">>))
                => /\ Contains(new, en_dash(value))
                   /\ ~Contains(new, <<"--">>)

\* C28: a value that holds the text of a keyword is shown as it is: a
\* paragraph that held the keyword of such a value holds the value afterwards.
C28_ValueIsNotScanned ==
    pc = "done" =>
        \A j \in 1..Len(VisitedParagraphs(template)) : \A kw \in TextKeywords :
            LET old   == ParagraphText(VisitedParagraphs(template)[j])
                new   == ParagraphText(VisitedParagraphs(saved)[j])
                value == Get(replacements, kw)
            IN  (Contains(old, kw) /\ Contains(value, <<"{{comp">>))
                => Contains(new, value)

----------------------------------------------------------------------------
(* Properties of _replace_text_in_document, under SpecRuns *)

\* placeholder occurs in the text of the paragraph and in no single run of it
SpansRuns(runs, placeholder) ==
    /\ Contains(ParagraphText(runs), placeholder)
    /\ \A j \in 1..Len(runs) : ~Contains(runs[j].text, placeholder)

\* placeholder occurs exactly once in text
OccursOnce(text, placeholder) ==
    Cardinality({p \in 1..Len(text) : OccursAt(text, placeholder, p)}) = 1

\* C22: a paragraph whose placeholder spans several runs is rebuilt as the
\* text before, the replacement and the text after: the text is the original
\* with the placeholder replaced, the replacement has the formatting of the
\* placeholder's first character, and every character before and after keeps
\* the formatting of its originating run.
C22_SlowPathKeepsCharacterFormats ==
    pc = "replaced" =>
        \A j \in 1..Len(AllParagraphs(template)) :
            LET old     == AllParagraphs(template)[j]
                new     == AllParagraphs(doc)[j]
                entry   == replacements[1]
                text    == ParagraphText(old)
                formats == char_formats(old)
                p       == Find(text, entry.k)
                value   == en_dash(entry.v)
                rest    == p + Len(entry.k)
            IN  (/\ SpansRuns(old, entry.k)
                 /\ OccursOnce(text, entry.k)
                 /\ ~Contains(entry.v, <<"{{">>))
                =>
                /\ ParagraphText(new)
                      = SubSeq(text, 1, p - 1) \o value \o SubSeq(text, rest, Len(text))
                /\ char_formats(new)
                      = SubSeq(formats, 1, p - 1)
                           \o [k \in 1..Len(value) |-> formats[p]]
                           \o SubSeq(formats, rest, Len(formats))

\* What does hold of the double hyphen: in the property report, whose
\* placeholders _replace_text_in_runs replaces, a paragraph that held the
\* placeholder of a value with a double hyphen holds the value with an en dash
\* afterwards, and no double hyphen, on the fast path and on the slow path.
C23_EnDashInPropertyReport ==
    pc = "replaced" =>
        \A j \in 1..Len(AllParagraphs(template)) :
            LET old   == ParagraphText(AllParagraphs(template)[j])
                new   == ParagraphText(AllParagraphs(doc)[j])
                entry == replacements[1]
            IN  (Contains(old, entry.k) /\ Contains(entry.v, <<"--">>))
                => /\ Contains(new, en_dash(entry.v))
                   /\ ~Contains(new, <<"--">>)

\* What the property report does with a value that holds a placeholder: the
\* claim of C28, for _replace_text_in_document.
C28_ValueIsNotScannedInPropertyReport ==
    pc = "replaced" =>
        \A j \in 1..Len(AllParagraphs(template)) :
            LET old   == ParagraphText(AllParagraphs(template)[j])
                new   == ParagraphText(AllParagraphs(doc)[j])
                entry == replacements[1]
            IN  (Contains(old, entry.k) /\ Contains(entry.v, <<"{{">>))
                => Contains(new, entry.v)

----------------------------------------------------------------------------
(* Properties of two invocations at the same time, under SpecIsolated and  *)
(* SpecShared                                                              *)

\* the image of page k of the PDF of request p
OwnImage(p, k) == <<"image", p, k>>

\* the name of the document saved at second ts
ReportAt(ts) == <<"Report_with_Comps_">> \o str(ts) \o <<".docx">>

\* no step replaces a file that another invocation wrote
NoForeignOverwrite ==
    \A f \in files : \E g \in files' : g.path = f.path /\ g.by = f.by

\* the report of the records of invocation p when it runs alone: every
\* record of the request has its own number, so each picture is the image
\* of the page of its record
AloneReport(p) ==
    [numbers  |-> [k \in 1..Len(comps[p]) |-> comps[p][k].comp_number],
     pictures |-> [k \in 1..Len(comps[p]) |-> OwnImage(p, k)]]

\* invocation p returned what it returns alone: the image of each record is
\* the one of its page, the document is the report of its records, and the
\* returned path holds that document
ReturnsAsAlone(p) ==
    /\ \A k \in 1..Len(comps[p]) :
          ReadFile(files, comps[p][k].image_path) = OwnImage(p, k)
    /\ doc[p] = AloneReport(p)
    /\ ReadFile(files, saved[p]) = doc[p]

BothDone == \A p \in Procs : pc[p] = "done"

\* C27: two invocations of extract and render on extractors with disjoint
\* output directories, in any interleaving of their steps, never write the
\* same file, and each returns the records and the document it returns when
\* it runs alone.
C27_IsolatedInvocationsDoNotInterfere ==
    /\ [][NoForeignOverwrite]_vars
    /\ [](\A f \in files :
              f.path = FilePath(IsolatedDir(f.by), SubSeq(f.path, 3, Len(f.path))))
    /\ [](BothDone => saved[1] # saved[2] /\ \A p \in Procs : ReturnsAsAlone(p))

\* both invocations have a record 1, wrote its image in the same second and
\* saved their documents in the same second
C27_Witness ==
    /\ BothDone
    /\ \E ts \in 0..MaxClock : \A p \in Procs :
          /\ comps[p][1].comp_number = 1
          /\ comps[p][1].image_path =
                FilePath(IsolatedDir(p), ImagePath(1, ts, "png"))
    /\ \E ts \in 0..MaxClock : \A p \in Procs :
          saved[p] = FilePath(IsolatedDir(p), ReportAt(ts))

\* C30: two /process_comps requests served at the same time by the one
\* CompExtractor of the API never write the same image file or the same
\* output document path, so neither request's report or images are
\* overwritten by the other.
C30_SharedExtractorDoesNotCollide ==
    /\ [][NoForeignOverwrite]_vars
    /\ [](BothDone => saved[1] # saved[2] /\ \A p \in Procs :
              /\ ReadFile(files, saved[p]) = doc[p]
              /\ \A k \in 1..Len(comps[p]) :
                    ReadFile(files, comps[p][k].image_path) = OwnImage(p, k))

====
